---- MODULE Spec2Model ----
(***************************************************************************)
(* Model of main.py: the /ws-voice relay session (ws_voice and its two     *)
(* loops receive_from_client / receive_from_openai), the booking           *)
(* extraction check_for_booking and the webhook dispatch send_to_make.     *)
(*                                                                         *)
(* Text is a sequence of one-character strings, binary data a sequence of  *)
(* byte values 0..255.  A message is a record with the same fields         *)
(* whatever its type, so that logs of messages are comparable.             *)
(***************************************************************************)
EXTENDS Integers, Sequences, FiniteSets, TLC

(* Bound of the exploration: messages received on the two sockets. *)
MaxEvents == 3

(***************************************************************************)
(* base64 (standard alphabet), as base64.b64encode / base64.b64decode      *)
(***************************************************************************)
B64Chars ==
  << "A","B","C","D","E","F","G","H","I","J","K","L","M","N","O","P",
     "Q","R","S","T","U","V","W","X","Y","Z","a","b","c","d","e","f",
     "g","h","i","j","k","l","m","n","o","p","q","r","s","t","u","v",
     "w","x","y","z","0","1","2","3","4","5","6","7","8","9","+","/" >>

B64Pad == "="

IsB64Char(c) == \E i \in 1..Len(B64Chars) : B64Chars[i] = c

B64Value(c) == (CHOOSE i \in 1..Len(B64Chars) : B64Chars[i] = c) - 1

B64Digit(v) == B64Chars[v + 1]

(* One group of 1, 2 or 3 bytes becomes 4 characters, padded with "=". *)
EncodeGroup(g) ==
  LET b0 == g[1]
      b1 == IF Len(g) >= 2 THEN g[2] ELSE 0
      b2 == IF Len(g) >= 3 THEN g[3] ELSE 0
      n  == b0 * 65536 + b1 * 256 + b2
      c0 == B64Digit(n \div 262144)
      c1 == B64Digit((n \div 4096) % 64)
      c2 == B64Digit((n \div 64) % 64)
      c3 == B64Digit(n % 64)
  IN  IF Len(g) = 1 THEN << c0, c1, B64Pad, B64Pad >>
      ELSE IF Len(g) = 2 THEN << c0, c1, c2, B64Pad >>
      ELSE << c0, c1, c2, c3 >>

RECURSIVE b64encode(_)
b64encode(data) ==
  IF Len(data) = 0 THEN << >>
  ELSE IF Len(data) <= 3 THEN EncodeGroup(data)
  ELSE EncodeGroup(SubSeq(data, 1, 3)) \o b64encode(SubSeq(data, 4, Len(data)))

(* The bytes held by a run of sextets: every full group of 4 gives 3       *)
(* bytes, a final group of 2 gives 1 byte and a final group of 3 gives 2.  *)
RECURSIVE SextetsToBytes(_)
SextetsToBytes(sx) ==
  IF Len(sx) < 2 THEN << >>
  ELSE
    LET s0 == sx[1]
        s1 == sx[2]
        s2 == IF Len(sx) >= 3 THEN sx[3] ELSE 0
        s3 == IF Len(sx) >= 4 THEN sx[4] ELSE 0
        n  == s0 * 262144 + s1 * 4096 + s2 * 64 + s3
        y0 == n \div 65536
        y1 == (n \div 256) % 256
        y2 == n % 256
    IN  IF Len(sx) = 2 THEN << y0 >>
        ELSE IF Len(sx) = 3 THEN << y0, y1 >>
        ELSE << y0, y1, y2 >> \o SextetsToBytes(SubSeq(sx, 5, Len(sx)))

(* The non-strict decoder: characters outside the alphabet are skipped, a  *)
(* pad that completes the current group ends the parse, and input that     *)
(* ends inside a group raises binascii.Error.                              *)
RECURSIVE DecodeScan(_, _, _, _)
DecodeScan(s, i, sx, pads) ==
  LET quad == Len(sx) % 4 IN
  IF i > Len(s)
  THEN [ok |-> quad = 0, bytes |-> IF quad = 0 THEN SextetsToBytes(sx) ELSE << >>]
  ELSE IF s[i] = B64Pad
  THEN IF quad >= 2 /\ quad + pads + 1 >= 4
       THEN [ok |-> TRUE, bytes |-> SextetsToBytes(sx)]
       ELSE DecodeScan(s, i + 1, sx, pads + 1)
  ELSE IF IsB64Char(s[i])
  THEN DecodeScan(s, i + 1, Append(sx, B64Value(s[i])), 0)
  ELSE DecodeScan(s, i + 1, sx, pads)

b64decode(s) == DecodeScan(s, 1, << >>, 0)


(***************************************************************************)
(* Values                                                                  *)
(***************************************************************************)
SYSTEM_INSTRUCTIONS == << "You are a friendly AI receptionist." >>

Turn(role, content) == [role |-> role, content |-> content]

(* A message on either socket: a JSON object by its type and text, or a    *)
(* binary frame by its data.                                               *)
Msg(type, text, data) == [type |-> type, text |-> text, data |-> data]

SessionConfig == Msg("session.update", SYSTEM_INSTRUCTIONS, << >>)

GenericError == << "An error occurred with the AI service." >>
StatusError == << "OpenAI connection failed with status" >>
ConnectionError == << "Connection error" >>
UnknownError == << "Unknown error" >>

(* What the upstream socket can deliver: text that is not JSON, or an      *)
(* event object with its type, the shape of its payload field (delta,      *)
(* transcript or error) and the text that field carries.                   *)
Upstream(json, type, field, text) ==
  [json |-> json, type |-> type, field |-> field, text |-> text]

UpstreamMessages ==
  { Upstream("invalid", "", "absent", << >>),
    Upstream("object", "response.audio.delta", "string", b64encode(<< 1, 2, 3 >>)),
    Upstream("object", "response.audio.delta", "string", << "A", "Q", "I" >>),
    Upstream("object", "response.audio_transcript.delta", "string", << "H", "i" >>),
    Upstream("object", "response.audio_transcript.delta", "string", << "!" >>),
    Upstream("object", "response.audio_transcript.delta", "absent", << >>),
    Upstream("object", "conversation.item.input_audio_transcription.completed",
             "string", << "b", "o", "o", "k" >>),
    Upstream("object", "conversation.item.input_audio_transcription.completed",
             "absent", << >>),
    Upstream("object", "response.done", "absent", << >>),
    Upstream("object", "error", "object", << "quota" >>),
    Upstream("object", "error", "string", << "quota" >>),
    Upstream("object", "session.created", "absent", << >>) }

(* What the client socket can deliver: a binary frame or a text frame.     *)
Frame(kind, data) == [kind |-> kind, data |-> data]

ClientFrames ==
  { Frame("bytes", << >>), Frame("bytes", << 77, 97 >>),
    Frame("bytes", << 255 >>), Frame("text", << >>) }

(* Outcomes of the chat-completions collaborator and of requests.post.     *)
CollabOutcomes == { "plain", "tool", "throws" }
WebOutcomes == { "ok", "non200", "exc" }
WebhookUrls == { "", "https://hook" }

NoMessage == Upstream("none", "", "absent", << >>)
Outcome(collab, web) == [collab |-> collab, web |-> web]

VARIABLES
  phase,                 \* Connecting, Configuring, Active, Closed, Failed
  clientConn,            \* the browser's end of /ws-voice: open, gone
  clientSock,            \* the server's handle on it: open, closed
  upstreamConn,          \* openai_ws: none, open, closed
  clientLoop,            \* receive_from_client: idle, running, done
  openaiLoop,            \* receive_from_openai: idle, running, done
  session_chat_history,  \* the session's conversation log
  current_ai_response,   \* the accumulated assistant utterance
  MAKE_WEBHOOK_URL,      \* process configuration
  extracting,            \* check_for_booking is executing (synchronous call)
  user_transcript,       \* the handler's local while check_for_booking runs
  toUpstream,            \* messages sent on openai_ws, in order
  toClient,              \* messages delivered to the client, in order
  clientFrames,          \* binary frames the client loop has received
  deltas,                \* transcript delta texts since the last response.done
  extractCalls,          \* calls of check_for_booking
  posts,                 \* calls of requests.post
  nUp, nFrames,          \* upstream messages and client frames so far
  lastMsg,               \* the upstream message dispatched last
  lastOutcome            \* how check_for_booking went last

(* The process as a whole: the module-level chat_history of /chat, and     *)
(* the locals of the voice sessions that are open at the same time.        *)
VARIABLES
  chat_history,          \* the process-wide conversation log of /chat
  voice,                 \* per voice session: its state, log and buffer
  pending,               \* per /chat request: its state, message and reply
  heard,                 \* per voice session: the upstream messages dispatched
  extractArg             \* per voice session: the log last given to check_for_booking

sessionVars ==
  << phase, clientConn, clientSock, upstreamConn, clientLoop, openaiLoop,
     session_chat_history, current_ai_response, MAKE_WEBHOOK_URL, extracting,
     user_transcript, toUpstream, toClient, clientFrames, deltas,
     extractCalls, posts, nUp, nFrames, lastMsg, lastOutcome >>

sharedVars == << chat_history, voice, pending, heard, extractArg >>

vars == << sessionVars, sharedVars >>

Sessions == { "s1", "s2" }
Requests == { "r1", "r2" }
ChatTexts == { << >>, << "h", "i" >> }

VoiceState(state, log, buf) == [state |-> state, log |-> log, buf |-> buf]
Request(state, msg, reply, at) ==
  [state |-> state, msg |-> msg, reply |-> reply, at |-> at]

SharedInit ==
  /\ chat_history = << Turn("system", SYSTEM_INSTRUCTIONS) >>
  /\ voice = [s \in Sessions |-> VoiceState("absent", << >>, << >>)]
  /\ pending = [r \in Requests |-> Request("idle", << >>, << >>, 0)]
  /\ heard = [s \in Sessions |-> << >>]
  /\ extractArg = [s \in Sessions |-> << >>]

(* A send to the client succeeds while the client is there and the socket  *)
(* has not been closed, and raises otherwise.                              *)
ClientReachable == clientConn = "open" /\ clientSock = "open"

Sent(reach, msg) == IF reach THEN << msg >> ELSE << >>

Init ==
  /\ phase = "Connecting"
  /\ clientConn = "open"
  /\ clientSock = "open"
  /\ upstreamConn = "none"
  /\ clientLoop = "idle"
  /\ openaiLoop = "idle"
  /\ session_chat_history = << Turn("system", SYSTEM_INSTRUCTIONS) >>
  /\ current_ai_response = << >>
  /\ MAKE_WEBHOOK_URL \in WebhookUrls
  /\ extracting = FALSE
  /\ user_transcript = << >>
  /\ toUpstream = << >>
  /\ toClient = << >>
  /\ clientFrames = << >>
  /\ deltas = << >>
  /\ extractCalls = 0
  /\ posts = 0
  /\ nUp = 0
  /\ nFrames = 0
  /\ lastMsg = NoMessage
  /\ lastOutcome = Outcome("none", "none")
  /\ SharedInit


(***************************************************************************)
(* send_to_make and check_for_booking                                      *)
(***************************************************************************)
(* Variant: a failed POST is tried a second time. *)
send_to_make_Retries(url, web) ==
  IF url = ""
  THEN [posts |-> 0, ok |-> FALSE]
  ELSE [posts |-> IF web = "ok" THEN 1 ELSE 2, ok |-> web = "ok"]

(* One POST when the URL is configured; every failure becomes False.       *)
send_to_make(url, web) ==
  IF url = ""
  THEN [posts |-> 0, ok |-> FALSE]
  ELSE [posts |-> 1, ok |-> web = "ok"]

(* Variant: without the try/except, a failing collaborator call raises     *)
(* into the upstream loop.                                                 *)
check_for_booking_Uncaught(collab, url, web) ==
  IF collab = "tool"
  THEN [posts |-> send_to_make(url, web).posts, raised |-> FALSE]
  ELSE [posts |-> 0, raised |-> collab = "throws"]

(* The collaborator call, and the webhook on a tool call.  Whatever is     *)
(* raised inside is caught: nothing is raised to the caller.               *)
check_for_booking(collab, url, web) ==
  IF collab = "tool"
  THEN [posts |-> send_to_make(url, web).posts, raised |-> FALSE]
  ELSE [posts |-> 0, raised |-> FALSE]

(***************************************************************************)
(* receive_from_openai: the dispatch on one upstream message               *)
(***************************************************************************)
Effect(hist, buf, out, raised, extract) ==
  [hist |-> hist, buf |-> buf, out |-> out, raised |-> raised,
   extract |-> extract]

(* event.get("delta", "") and event.get("transcript", "") *)
FieldText(m) == IF m.field = "string" THEN m.text ELSE << >>

(* Variant: the decoded audio is sent twice. *)
OnAudioDelta_Twice(m, hist, buf, reach) ==
  LET d == b64decode(FieldText(m)) IN
  IF ~d.ok
  THEN Effect(hist, buf, << >>, TRUE, FALSE)
  ELSE Effect(hist, buf,
              Sent(reach, Msg("bytes", << >>, d.bytes)) \o
              Sent(reach, Msg("bytes", << >>, d.bytes)), ~reach, FALSE)

OnAudioDelta(m, hist, buf, reach) ==
  LET d == b64decode(FieldText(m)) IN
  IF ~d.ok
  THEN Effect(hist, buf, << >>, TRUE, FALSE)
  ELSE Effect(hist, buf, Sent(reach, Msg("bytes", << >>, d.bytes)), ~reach, FALSE)

(* Variant: the extraction is also run on every assistant delta. *)
OnTranscriptDelta_Extracts(m, hist, buf, reach) ==
  Effect(hist, buf \o FieldText(m), << >>, FALSE, TRUE)

OnTranscriptDelta(m, hist, buf, reach) ==
  Effect(hist, buf \o FieldText(m),
         Sent(reach, Msg("transcript", FieldText(m), << >>)), ~reach, FALSE)

(* Variant: check_for_booking is called before the user Turn is appended,  *)
(* the Turn never reaching the log it is given.                            *)
OnTranscriptionCompleted_NoTurn(m, hist, buf, reach) ==
  IF FieldText(m) # << >>
  THEN Effect(hist, buf, << >>, FALSE, TRUE)
  ELSE Effect(hist, buf, Sent(reach, Msg("user_transcript", << >>, << >>)),
              ~reach, FALSE)

(* With a transcript the user Turn is appended and check_for_booking is    *)
(* called; the user_transcript message follows its return.                 *)
OnTranscriptionCompleted(m, hist, buf, reach) ==
  IF FieldText(m) # << >>
  THEN Effect(Append(hist, Turn("user", FieldText(m))), buf, << >>, FALSE, TRUE)
  ELSE Effect(hist, buf, Sent(reach, Msg("user_transcript", << >>, << >>)),
              ~reach, FALSE)

(* Variant: a Turn is appended whether or not the buffer holds text. *)
OnResponseDone_AlwaysAppends(hist, buf, reach) ==
  Effect(Append(hist, Turn("assistant", buf)), << >>,
         Sent(reach, Msg("response_end", << >>, << >>)), ~reach, FALSE)

(* Variant: the Turn is appended but the buffer is kept. *)
OnResponseDone_KeepBuffer(hist, buf, reach) ==
  IF buf # << >>
  THEN Effect(Append(hist, Turn("assistant", buf)), buf,
              Sent(reach, Msg("response_end", << >>, << >>)), ~reach, FALSE)
  ELSE Effect(hist, buf,
              Sent(reach, Msg("response_end", << >>, << >>)), ~reach, FALSE)

OnResponseDone(hist, buf, reach) ==
  IF buf # << >>
  THEN Effect(Append(hist, Turn("assistant", buf)), << >>,
              Sent(reach, Msg("response_end", << >>, << >>)), ~reach, FALSE)
  ELSE Effect(hist, buf,
              Sent(reach, Msg("response_end", << >>, << >>)), ~reach, FALSE)

(* Variant: the send of the error message is not guarded. *)
OnErrorEvent_Unguarded(m, hist, buf, reach) ==
  IF m.field = "string"
  THEN Effect(hist, buf, << >>, TRUE, FALSE)
  ELSE Effect(hist, buf,
              Sent(reach, Msg("error",
                              IF m.field = "object" THEN m.text ELSE UnknownError,
                              << >>)),
              ~reach, FALSE)

(* event.get("error", {}).get("message", ...) raises on a non-object; the  *)
(* send itself is guarded by try/except.                                   *)
OnErrorEvent(m, hist, buf, reach) ==
  IF m.field = "string"
  THEN Effect(hist, buf, << >>, TRUE, FALSE)
  ELSE Effect(hist, buf,
              Sent(reach, Msg("error",
                              IF m.field = "object" THEN m.text ELSE UnknownError,
                              << >>)),
              FALSE, FALSE)

(* Variant: an event of an unknown type is treated as a failure. *)
OnEvent_FailClosed(m, hist, buf, reach) ==
  IF m.json # "object"
  THEN Effect(hist, buf, << >>, TRUE, FALSE)
  ELSE IF m.type = "response.audio.delta"
  THEN OnAudioDelta(m, hist, buf, reach)
  ELSE IF m.type = "response.audio_transcript.delta"
  THEN OnTranscriptDelta(m, hist, buf, reach)
  ELSE IF m.type = "conversation.item.input_audio_transcription.completed"
  THEN OnTranscriptionCompleted(m, hist, buf, reach)
  ELSE IF m.type = "response.done"
  THEN OnResponseDone(hist, buf, reach)
  ELSE IF m.type = "error"
  THEN OnErrorEvent(m, hist, buf, reach)
  ELSE Effect(hist, buf, << >>, TRUE, FALSE)

OnEvent(m, hist, buf, reach) ==
  IF m.json # "object"
  THEN Effect(hist, buf, << >>, TRUE, FALSE)
  ELSE IF m.type = "response.audio.delta"
  THEN OnAudioDelta(m, hist, buf, reach)
  ELSE IF m.type = "response.audio_transcript.delta"
  THEN OnTranscriptDelta(m, hist, buf, reach)
  ELSE IF m.type = "conversation.item.input_audio_transcription.completed"
  THEN OnTranscriptionCompleted(m, hist, buf, reach)
  ELSE IF m.type = "response.done"
  THEN OnResponseDone(hist, buf, reach)
  ELSE IF m.type = "error"
  THEN OnErrorEvent(m, hist, buf, reach)
  ELSE Effect(hist, buf, << >>, FALSE, FALSE)

(* The loop's handler for any other exception: one error message, itself   *)
(* best effort, and the loop ends.                                         *)
OnLoopException(reach) == Sent(reach, Msg("error", GenericError, << >>))

(***************************************************************************)
(* receive_from_client: one frame                                          *)
(***************************************************************************)
(* Variant: the payload is read with msg["bytes"], which a text frame does *)
(* not carry.                                                              *)
OnFrame_TextRaises(f, upOpen) ==
  IF f.kind # "bytes"
  THEN [out |-> << >>, raised |-> TRUE]
  ELSE IF f.data # << >>
  THEN IF upOpen
       THEN [out |-> << Msg("input_audio_buffer.append", b64encode(f.data), << >>) >>,
             raised |-> FALSE]
       ELSE [out |-> << >>, raised |-> TRUE]
  ELSE [out |-> << >>, raised |-> FALSE]

OnFrame(f, upOpen) ==
  IF f.kind = "bytes" /\ f.data # << >>
  THEN IF upOpen
       THEN [out |-> << Msg("input_audio_buffer.append", b64encode(f.data), << >>) >>,
             raised |-> FALSE]
       ELSE [out |-> << >>, raised |-> TRUE]
  ELSE [out |-> << >>, raised |-> FALSE]

(***************************************************************************)
(* ws_voice: connection failure handlers                                   *)
(***************************************************************************)
(* Variant: the error is sent but the client socket is left open. *)
OnConnectFailure_NoClose(reach, text) ==
  [out |-> Sent(reach, Msg("error", text, << >>)), sock |-> "open"]

OnConnectFailure(reach, text) ==
  [out |-> Sent(reach, Msg("error", text, << >>)), sock |-> "closed"]


(***************************************************************************)
(* Actions                                                                 *)
(***************************************************************************)
Live == phase \in { "Connecting", "Configuring", "Active" }

(* Variant: the loops are started without the configuration being sent. *)
ConfigMessages_None == << >>

(* What is sent on the new upstream connection before the loops start. *)
ConfigMessages == << SessionConfig >>

(* websockets.connect succeeds. *)
ConnectAccepted ==
  /\ phase = "Connecting"
  /\ phase' = "Configuring"
  /\ upstreamConn' = "open"
  /\ UNCHANGED << clientConn, clientSock, clientLoop, openaiLoop,
                  session_chat_history, current_ai_response, MAKE_WEBHOOK_URL,
                  extracting, user_transcript, toUpstream, toClient,
                  clientFrames, deltas, extractCalls, posts, nUp, nFrames,
                  lastMsg, lastOutcome >>
  /\ UNCHANGED sharedVars

(* websockets.connect raises on a rejected handshake. *)
ConnectRejected ==
  /\ phase = "Connecting"
  /\ LET h == OnConnectFailure(ClientReachable, StatusError) IN
       /\ toClient' = toClient \o h.out
       /\ clientSock' = h.sock
  /\ phase' = "Failed"
  /\ UNCHANGED << clientConn, upstreamConn, clientLoop, openaiLoop,
                  session_chat_history, current_ai_response, MAKE_WEBHOOK_URL,
                  extracting, user_transcript, toUpstream, clientFrames,
                  deltas, extractCalls, posts, nUp, nFrames,
                  lastMsg, lastOutcome >>
  /\ UNCHANGED sharedVars

(* The session config is sent and the two loops are started; a send on a   *)
(* connection that has already closed raises into the outer handler.       *)
SendSessionConfig ==
  /\ phase = "Configuring"
  /\ IF upstreamConn = "open"
     THEN /\ toUpstream' = toUpstream \o ConfigMessages
          /\ clientLoop' = "running"
          /\ openaiLoop' = "running"
          /\ phase' = "Active"
          /\ UNCHANGED << toClient, clientSock >>
     ELSE /\ LET h == OnConnectFailure(ClientReachable, ConnectionError) IN
               /\ toClient' = toClient \o h.out
               /\ clientSock' = h.sock
          /\ phase' = "Failed"
          /\ UNCHANGED << toUpstream, clientLoop, openaiLoop >>
  /\ UNCHANGED << clientConn, upstreamConn, session_chat_history,
                  current_ai_response, MAKE_WEBHOOK_URL, extracting,
                  user_transcript, clientFrames, deltas, extractCalls, posts,
                  nUp, nFrames,
                  lastMsg, lastOutcome >>
  /\ UNCHANGED sharedVars

(* One pass of the client loop: a frame is received and handled.  The      *)
(* loops share one thread, which check_for_booking occupies while it runs. *)
ReceiveFromClient(f) ==
  /\ phase = "Active"
  /\ clientLoop = "running"
  /\ ~extracting
  /\ clientConn = "open"
  /\ nUp + nFrames < MaxEvents
  /\ LET r == OnFrame(f, upstreamConn = "open") IN
       /\ toUpstream' = toUpstream \o r.out
       /\ clientLoop' = IF r.raised THEN "done" ELSE "running"
  /\ clientFrames' = IF f.kind = "bytes" THEN Append(clientFrames, f.data)
                     ELSE clientFrames
  /\ nFrames' = nFrames + 1
  /\ UNCHANGED << phase, clientConn, clientSock, upstreamConn, openaiLoop,
                  session_chat_history, current_ai_response, MAKE_WEBHOOK_URL,
                  extracting, user_transcript, toClient, deltas, extractCalls,
                  posts, nUp,
                  lastMsg, lastOutcome >>
  /\ UNCHANGED sharedVars

(* The client loop receives the disconnect and ends. *)
ClientLoopDisconnect ==
  /\ phase = "Active"
  /\ clientLoop = "running"
  /\ ~extracting
  /\ clientConn = "gone"
  /\ clientLoop' = "done"
  /\ UNCHANGED << phase, clientConn, clientSock, upstreamConn, openaiLoop,
                  session_chat_history, current_ai_response, MAKE_WEBHOOK_URL,
                  extracting, user_transcript, toUpstream, toClient,
                  clientFrames, deltas, extractCalls, posts, nUp, nFrames,
                  lastMsg, lastOutcome >>
  /\ UNCHANGED sharedVars

NextDeltas(m, ds) ==
  IF m.json # "object" THEN ds
  ELSE IF m.type = "response.audio_transcript.delta" THEN Append(ds, FieldText(m))
  ELSE IF m.type = "response.done" THEN << >>
  ELSE ds

(* One pass of the upstream loop: a message is received and dispatched.    *)
(* On a completed user utterance the pass enters check_for_booking.        *)
HandleUpstream(m) ==
  /\ phase = "Active"
  /\ openaiLoop = "running"
  /\ ~extracting
  /\ upstreamConn = "open"
  /\ nUp + nFrames < MaxEvents
  /\ LET reach == ClientReachable
         r == OnEvent(m, session_chat_history, current_ai_response, reach)
     IN
       /\ session_chat_history' = r.hist
       /\ current_ai_response' = r.buf
       /\ extracting' = r.extract
       /\ user_transcript' = IF r.extract THEN FieldText(m) ELSE << >>
       /\ extractCalls' = IF r.extract THEN extractCalls + 1 ELSE extractCalls
       /\ toClient' = toClient \o r.out \o
                      (IF r.raised THEN OnLoopException(reach) ELSE << >>)
       /\ openaiLoop' = IF r.raised THEN "done" ELSE "running"
  /\ deltas' = NextDeltas(m, deltas)
  /\ nUp' = nUp + 1
  /\ lastMsg' = m
  /\ UNCHANGED << phase, clientConn, clientSock, upstreamConn, clientLoop,
                  MAKE_WEBHOOK_URL, toUpstream, clientFrames, posts, nFrames,
                  lastOutcome >>
  /\ UNCHANGED sharedVars

(* check_for_booking returns and the pass goes on to send user_transcript. *)
FinishExtraction(collab, web) ==
  /\ phase = "Active"
  /\ extracting
  /\ web \in (IF collab = "tool" /\ MAKE_WEBHOOK_URL # ""
              THEN WebOutcomes ELSE { "none" })
  /\ LET reach == ClientReachable
         c == check_for_booking(collab, MAKE_WEBHOOK_URL, web)
     IN
       /\ posts' = posts + c.posts
       /\ IF c.raised
          THEN /\ toClient' = toClient \o OnLoopException(reach)
               /\ openaiLoop' = "done"
          ELSE /\ toClient' = toClient \o
                    Sent(reach, Msg("user_transcript", user_transcript, << >>))
               /\ openaiLoop' = IF reach THEN "running" ELSE "done"
  /\ extracting' = FALSE
  /\ user_transcript' = << >>
  /\ lastOutcome' = Outcome(collab, web)
  /\ UNCHANGED << phase, clientConn, clientSock, upstreamConn, clientLoop,
                  session_chat_history, current_ai_response, MAKE_WEBHOOK_URL,
                  toUpstream, clientFrames, deltas, extractCalls, nUp,
                  nFrames,
                  lastMsg >>
  /\ UNCHANGED sharedVars

(* The upstream loop finds the connection closed and ends. *)
OpenaiLoopClosed ==
  /\ phase = "Active"
  /\ openaiLoop = "running"
  /\ ~extracting
  /\ upstreamConn = "closed"
  /\ openaiLoop' = "done"
  /\ UNCHANGED << phase, clientConn, clientSock, upstreamConn, clientLoop,
                  session_chat_history, current_ai_response, MAKE_WEBHOOK_URL,
                  extracting, user_transcript, toUpstream, toClient,
                  clientFrames, deltas, extractCalls, posts, nUp, nFrames,
                  lastMsg, lastOutcome >>
  /\ UNCHANGED sharedVars

(* asyncio.gather returns when both loops have returned; the handler       *)
(* leaves the connection context and returns.                              *)
GatherReturns ==
  /\ phase = "Active"
  /\ clientLoop = "done"
  /\ openaiLoop = "done"
  /\ phase' = "Closed"
  /\ upstreamConn' = "closed"
  /\ clientSock' = "closed"
  /\ UNCHANGED << clientConn, clientLoop, openaiLoop, session_chat_history,
                  current_ai_response, MAKE_WEBHOOK_URL, extracting,
                  user_transcript, toUpstream, toClient, clientFrames, deltas,
                  extractCalls, posts, nUp, nFrames,
                  lastMsg, lastOutcome >>
  /\ UNCHANGED sharedVars

(* The environment: the browser goes away, the upstream closes. *)
ClientDisconnects ==
  /\ Live
  /\ clientConn = "open"
  /\ clientConn' = "gone"
  /\ UNCHANGED << phase, clientSock, upstreamConn, clientLoop, openaiLoop,
                  session_chat_history, current_ai_response, MAKE_WEBHOOK_URL,
                  extracting, user_transcript, toUpstream, toClient,
                  clientFrames, deltas, extractCalls, posts, nUp, nFrames,
                  lastMsg, lastOutcome >>
  /\ UNCHANGED sharedVars

UpstreamCloses ==
  /\ Live
  /\ upstreamConn = "open"
  /\ upstreamConn' = "closed"
  /\ UNCHANGED << phase, clientConn, clientSock, clientLoop, openaiLoop,
                  session_chat_history, current_ai_response, MAKE_WEBHOOK_URL,
                  extracting, user_transcript, toUpstream, toClient,
                  clientFrames, deltas, extractCalls, posts, nUp, nFrames,
                  lastMsg, lastOutcome >>
  /\ UNCHANGED sharedVars

Next ==
  \/ ConnectAccepted
  \/ ConnectRejected
  \/ SendSessionConfig
  \/ \E f \in ClientFrames : ReceiveFromClient(f)
  \/ ClientLoopDisconnect
  \/ \E m \in UpstreamMessages : HandleUpstream(m)
  \/ \E collab \in CollabOutcomes, web \in WebOutcomes \cup { "none" } :
       FinishExtraction(collab, web)
  \/ OpenaiLoopClosed
  \/ GatherReturns
  \/ ClientDisconnects
  \/ UpstreamCloses

Spec == Init /\ [][Next]_vars

(***************************************************************************)
(* Properties                                                              *)
(***************************************************************************)
RECURSIVE Concat(_)
Concat(ds) == IF ds = << >> THEN << >> ELSE Head(ds) \o Concat(Tail(ds))

(* The step is a pass of the upstream loop on an event of this type. *)
Dispatched(type) ==
  /\ nUp' = nUp + 1
  /\ lastMsg'.json = "object"
  /\ lastMsg'.type = type

SeenResponseDone == \E i \in 1..Len(toClient) : toClient[i].type = "response_end"

TranscriptionCompleted == "conversation.item.input_audio_transcription.completed"

(* C1, as stated: whatever transcript deltas arrive between two            *)
(* response.done events, the closing response.done appends exactly one     *)
(* assistant Turn holding their concatenation and leaves the buffer empty. *)
C1_AsStated ==
  [][(Dispatched("response.done") /\ SeenResponseDone /\ deltas # << >>)
       => /\ session_chat_history' =
               Append(session_chat_history, Turn("assistant", Concat(deltas)))
          /\ current_ai_response' = << >>]_vars

(* C1, amended: a response.done appends exactly one assistant Turn holding *)
(* the concatenation of the deltas since the previous boundary when that   *)
(* concatenation is not empty, appends nothing when it is empty, and       *)
(* leaves the buffer empty in both cases.                                  *)
C1_FlushAtResponseDone ==
  [][Dispatched("response.done")
       => /\ current_ai_response' = << >>
          /\ session_chat_history' =
               IF Concat(deltas) # << >>
               THEN Append(session_chat_history, Turn("assistant", Concat(deltas)))
               ELSE session_chat_history]_vars

C1_Witness ==
  /\ lastMsg.type = "response.done"
  /\ nUp = 3
  /\ session_chat_history[Len(session_chat_history)] =
       Turn("assistant", << "H", "i", "!" >>)
  /\ current_ai_response = << >>

(* C2, as stated: while the client loop runs and the upstream is open, the *)
(* append events sent upstream are the base64 encodings of the binary      *)
(* frames received, one per frame and in the same order.                   *)
AppendsSent ==
  SelectSeq(toUpstream, LAMBDA u : u.type = "input_audio_buffer.append")

C2_AsStated ==
  (phase = "Active" /\ clientLoop = "running" /\ upstreamConn = "open")
    => AppendsSent =
         [i \in 1..Len(clientFrames) |->
            Msg("input_audio_buffer.append", b64encode(clientFrames[i]), << >>)]

(* C3, as stated: while check_for_booking is in progress the upstream loop *)
(* can dispatch the next upstream message and the client loop can forward  *)
(* the next frame.                                                         *)
C3_AsStated ==
  (/\ phase = "Active"
   /\ extracting
   /\ nUp + nFrames < MaxEvents
   /\ upstreamConn = "open"
   /\ clientConn = "open"
   /\ clientLoop = "running")
    => /\ ENABLED (\E m \in UpstreamMessages : HandleUpstream(m))
       /\ ENABLED (\E f \in ClientFrames : ReceiveFromClient(f))

(* C4: check_for_booking is called only in the pass that dispatches a      *)
(* completed user utterance, and once in that pass.                        *)
C4_ExtractionOncePerUtterance ==
  [][extractCalls' # extractCalls
       => /\ extractCalls' = extractCalls + 1
          /\ Dispatched(TranscriptionCompleted)
          /\ FieldText(lastMsg') # << >>]_vars

C4_Witness ==
  /\ extractCalls = 2
  /\ lastMsg.type = TranscriptionCompleted
  /\ Len(session_chat_history) = 3


(* A session at rest: no loop can take a step, check_for_booking is not    *)
(* running and gather cannot return, so only a message arriving on a       *)
(* socket moves it.                                                        *)
AtRest ==
  ~ ENABLED (\/ ClientLoopDisconnect
             \/ OpenaiLoopClosed
             \/ GatherReturns
             \/ \E collab \in CollabOutcomes, web \in WebOutcomes \cup { "none" } :
                  FinishExtraction(collab, web))

(* C5, as stated: once either socket has closed the other loop ends        *)
(* without a further message, so an active session at rest has both        *)
(* sockets open.                                                           *)
C5_AsStated ==
  (phase = "Active" /\ AtRest) => (clientConn = "open" /\ upstreamConn = "open")

(* C6: after a rejected handshake exactly one error message has been sent  *)
(* (it reaches the client when the client is still connected), the client  *)
(* socket is closed, nothing was sent upstream and no loop was started.    *)
HandshakeRejected == phase = "Failed" /\ upstreamConn = "none"

C6_HandshakeRejected ==
  HandshakeRejected
    => /\ toClient = Sent(clientConn = "open", Msg("error", StatusError, << >>))
       /\ clientSock = "closed"
       /\ toUpstream = << >>
       /\ clientLoop = "idle"
       /\ openaiLoop = "idle"
       /\ ~ ENABLED Next

C6_Witness ==
  /\ HandshakeRejected
  /\ Len(toClient) = 1
  /\ toClient[1].type = "error"
  /\ clientSock = "closed"

(* The step in which check_for_booking returns. *)
ExtractionReturns == extracting /\ ~ extracting'

UserTranscriptSent ==
  toClient' = toClient \o
    Sent(ClientReachable, Msg("user_transcript", user_transcript, << >>))

(* C7: when the collaborator call throws, the session stays Active, the    *)
(* client loop and (with the client connected) the upstream loop keep      *)
(* running, the log and buffer are as before, no POST is issued, and the   *)
(* only message sent to the client is the utterance's user_transcript.     *)
C7_ExtractionFailureContained ==
  [][(ExtractionReturns /\ lastOutcome'.collab = "throws")
       => /\ phase' = "Active"
          /\ clientLoop' = clientLoop
          /\ (ClientReachable => openaiLoop' = "running")
          /\ session_chat_history' = session_chat_history
          /\ current_ai_response' = current_ai_response
          /\ posts' = posts
          /\ UserTranscriptSent]_vars

C7_Witness ==
  /\ lastOutcome.collab = "throws"
  /\ phase = "Active"
  /\ openaiLoop = "running"
  /\ posts = 0
  /\ toClient # << >>
  /\ toClient[Len(toClient)] = Msg("user_transcript", << "b", "o", "o", "k" >>, << >>)

(* C8: when the webhook fails (POST raises, status is not 200, or no URL   *)
(* is configured) the session stays Active with its loops, log and buffer  *)
(* as they were, the client gets the user_transcript and no error, and     *)
(* at most one POST was made.                                              *)
C8_WebhookFailureContained ==
  [][(ExtractionReturns /\ lastOutcome'.collab = "tool" /\ lastOutcome'.web # "ok")
       => /\ phase' = "Active"
          /\ clientLoop' = clientLoop
          /\ (ClientReachable => openaiLoop' = "running")
          /\ session_chat_history' = session_chat_history
          /\ current_ai_response' = current_ai_response
          /\ posts' = posts + (IF MAKE_WEBHOOK_URL = "" THEN 0 ELSE 1)
          /\ UserTranscriptSent]_vars

C8_Witness ==
  /\ lastOutcome = Outcome("tool", "exc")
  /\ posts = 1
  /\ phase = "Active"
  /\ openaiLoop = "running"
  /\ toClient # << >>
  /\ toClient[Len(toClient)].type = "user_transcript"

(* C9, as stated: a session issues at most one webhook POST, however many  *)
(* user utterances complete after the booking was posted.                  *)
C9_AsStated == posts <= 1

(* C10, as stated: after a malformed upstream message (not JSON, an audio  *)
(* delta that is not base64, an error that is not an object) the upstream  *)
(* loop is still running.                                                  *)
Malformed(m) ==
  \/ m.json = "invalid"
  \/ /\ m.json = "object"
     /\ m.type = "response.audio.delta"
     /\ ~ b64decode(FieldText(m)).ok
  \/ /\ m.json = "object"
     /\ m.type = "error"
     /\ m.field = "string"

C10_AsStated ==
  [][(nUp' = nUp + 1 /\ Malformed(lastMsg')) => openaiLoop' = "running"]_vars


(* The client-bound message of a well-formed upstream event of one of the  *)
(* five forwarded types.                                                   *)
ForwardedTypes ==
  { "response.audio.delta", "response.audio_transcript.delta",
    TranscriptionCompleted, "response.done", "error" }

Forwarded(m) ==
  /\ m.json = "object"
  /\ m.type \in ForwardedTypes
  /\ ~ Malformed(m)

ClientMessage(m) ==
  CASE m.type = "response.audio.delta" ->
         Msg("bytes", << >>, b64decode(FieldText(m)).bytes)
    [] m.type = "response.audio_transcript.delta" ->
         Msg("transcript", FieldText(m), << >>)
    [] m.type = TranscriptionCompleted ->
         Msg("user_transcript", FieldText(m), << >>)
    [] m.type = "response.done" ->
         Msg("response_end", << >>, << >>)
    [] m.type = "error" ->
         Msg("error", IF m.field = "object" THEN m.text ELSE UnknownError, << >>)

IsPrefix(a, b) == Len(a) <= Len(b) /\ SubSeq(b, 1, Len(a)) = a

(* C11: with the client connected, the pass that dispatches a well-formed  *)
(* audio delta, transcript delta, completed utterance, response.done or    *)
(* error event appends exactly one message of the matching kind to what    *)
(* the client has been sent (for a completed utterance with text, when     *)
(* check_for_booking returns), no upstream event is dispatched before that *)
(* message is sent, and messages are only ever appended.                   *)
C11_OrderPreserved ==
  [][/\ (nUp' = nUp + 1 /\ Forwarded(lastMsg') /\ ClientReachable)
          => IF lastMsg'.type = TranscriptionCompleted /\ FieldText(lastMsg') # << >>
             THEN /\ extracting'
                  /\ user_transcript' = FieldText(lastMsg')
                  /\ toClient' = toClient
             ELSE toClient' = Append(toClient, ClientMessage(lastMsg'))
     /\ (ExtractionReturns /\ ClientReachable)
          => toClient' = Append(toClient, Msg("user_transcript", user_transcript, << >>))
     /\ extracting => nUp' = nUp
     /\ IsPrefix(toClient, toClient')]_vars

C11_Witness ==
  /\ nUp = 3
  /\ toClient = << Msg("transcript", << "H", "i" >>, << >>),
                   Msg("transcript", << "!" >>, << >>),
                   Msg("response_end", << >>, << >>) >>

(* C12, as stated: a session that has ended while the client is still      *)
(* connected (so it ended on an upstream or loop failure) was sent a final *)
(* error message before the sockets were released.                         *)
C12_AsStated ==
  (phase = "Closed" /\ clientConn = "open")
    => /\ toClient # << >>
       /\ toClient[Len(toClient)].type = "error"


(* C14: session.update is sent at most once and is the first message on    *)
(* the upstream socket; once a loop has been started, a frame forwarded or *)
(* an upstream message dispatched, it has been sent.                       *)
ConfigsSent == SelectSeq(toUpstream, LAMBDA u : u.type = "session.update")

C14_ConfigFirst ==
  /\ Len(ConfigsSent) <= 1
  /\ toUpstream # << >> => toUpstream[1] = SessionConfig
  /\ (\/ phase \in { "Active", "Closed" }
      \/ clientLoop # "idle"
      \/ openaiLoop # "idle"
      \/ nUp > 0
      \/ nFrames > 0)
       => Len(ConfigsSent) = 1
  /\ phase \in { "Connecting", "Configuring" } => toUpstream = << >>

C14_Witness ==
  /\ phase = "Active"
  /\ nUp = 1
  /\ Len(toUpstream) = 3
  /\ toUpstream[1] = SessionConfig
  /\ toUpstream[2].type = "input_audio_buffer.append"

(* C15: while check_for_booking runs, the last Turn of the log it was      *)
(* given is the user Turn of the utterance, and when it returns the        *)
(* client is sent that utterance as one user_transcript; a completed       *)
(* utterance without text appends no Turn, calls no extraction and is      *)
(* forwarded as one user_transcript in its own pass.                       *)
C15_TurnBeforeExtraction ==
  [][/\ extracting'
          => /\ user_transcript' # << >>
             /\ session_chat_history'[Len(session_chat_history')] =
                  Turn("user", user_transcript')
     /\ (Dispatched(TranscriptionCompleted) /\ FieldText(lastMsg') # << >>)
          => /\ extracting'
             /\ user_transcript' = FieldText(lastMsg')
             /\ session_chat_history' =
                  Append(session_chat_history, Turn("user", FieldText(lastMsg')))
             /\ toClient' = toClient
     /\ ExtractionReturns => UserTranscriptSent
     /\ (Dispatched(TranscriptionCompleted) /\ FieldText(lastMsg') = << >>)
          => /\ ~ extracting'
             /\ extractCalls' = extractCalls
             /\ session_chat_history' = session_chat_history
             /\ toClient' = toClient \o
                  Sent(ClientReachable, Msg("user_transcript", << >>, << >>))]_vars

C15_Witness ==
  /\ extracting
  /\ Len(session_chat_history) = 3
  /\ session_chat_history[2].role = "assistant"
  /\ session_chat_history[3] = Turn("user", << "b", "o", "o", "k" >>)
  /\ user_transcript = << "b", "o", "o", "k" >>

(* C16: the pass that dispatches a well-formed error event sends the       *)
(* client one error message carrying its text and leaves both loops        *)
(* running and the log and buffer as they were, also when the client has   *)
(* gone and the send fails.                                                *)
C16_ErrorEventForwarded ==
  [][(Dispatched("error") /\ ~ Malformed(lastMsg'))
       => /\ toClient' = toClient \o
               Sent(ClientReachable, ClientMessage(lastMsg'))
          /\ openaiLoop' = "running"
          /\ clientLoop' = clientLoop
          /\ phase' = "Active"
          /\ ~ extracting'
          /\ session_chat_history' = session_chat_history
          /\ current_ai_response' = current_ai_response]_vars

C16_Witness ==
  /\ lastMsg.type = "error"
  /\ lastMsg.field = "object"
  /\ nUp = 1
  /\ clientConn = "gone"
  /\ toClient = << >>
  /\ openaiLoop = "running"
  /\ phase = "Active"

(* C17: the pass that dispatches an event object of any other type sends   *)
(* nothing to the client, leaves the log and the buffer as they were,      *)
(* calls no extraction and leaves the loop running.                        *)
C17_UnknownEventDropped ==
  [][(nUp' = nUp + 1 /\ lastMsg'.json = "object" /\ lastMsg'.type \notin ForwardedTypes)
       => /\ toClient' = toClient
          /\ session_chat_history' = session_chat_history
          /\ current_ai_response' = current_ai_response
          /\ extractCalls' = extractCalls
          /\ ~ extracting'
          /\ openaiLoop' = "running"
          /\ toUpstream' = toUpstream]_vars

C17_Witness ==
  /\ lastMsg.type = "session.created"
  /\ nUp = 2
  /\ current_ai_response = << "H", "i" >>
  /\ openaiLoop = "running"
  /\ Len(toClient) = 1

(* C18: the pass of the client loop that receives a text frame sends       *)
(* nothing upstream or to the client, changes no session state and leaves  *)
(* the loop running.                                                       *)
TextFrameReceived == nFrames' = nFrames + 1 /\ clientFrames' = clientFrames

C18_TextFrameIgnored ==
  [][TextFrameReceived
       => /\ toUpstream' = toUpstream
          /\ toClient' = toClient
          /\ clientLoop' = "running"
          /\ openaiLoop' = openaiLoop
          /\ phase' = phase
          /\ session_chat_history' = session_chat_history
          /\ current_ai_response' = current_ai_response
          /\ extractCalls' = extractCalls]_vars

C18_Witness ==
  /\ nFrames = 2
  /\ Len(clientFrames) = 1
  /\ upstreamConn = "closed"
  /\ Len(toUpstream) = 2
  /\ clientLoop = "running"

(* C19: the log starts with the system Turn, every later Turn is a user or *)
(* assistant Turn with text, a step only ever appends to the log, and a    *)
(* response.done with an empty buffer appends nothing and still sends      *)
(* response_end.                                                           *)
LogWellFormed(log) ==
  /\ log # << >>
  /\ log[1] = Turn("system", SYSTEM_INSTRUCTIONS)
  /\ \A i \in 2..Len(log) :
       /\ log[i].role \in { "user", "assistant" }
       /\ log[i].content # << >>

C19_LogAppendOnly ==
  [][/\ LogWellFormed(session_chat_history)
     /\ LogWellFormed(session_chat_history')
     /\ IsPrefix(session_chat_history, session_chat_history')
     /\ (Dispatched("response.done") /\ current_ai_response = << >>)
          => /\ session_chat_history' = session_chat_history
             /\ toClient' = toClient \o
                  Sent(ClientReachable, Msg("response_end", << >>, << >>))]_vars

C19_Witness ==
  /\ lastMsg.type = "response.done"
  /\ nUp = 3
  /\ Len(session_chat_history) = 2
  /\ session_chat_history[2].role = "user"
  /\ toClient # << >>
  /\ toClient[Len(toClient)].type = "response_end"


(***************************************************************************)
(* The process: /chat requests and voice sessions open at the same time    *)
(***************************************************************************)
(* Bound: upstream messages dispatched by all the voice sessions together. *)
MaxHeard == 2

SharedMessages ==
  { Upstream("object", "response.audio_transcript.delta", "string", << "H", "i" >>),
    Upstream("object", "conversation.item.input_audio_transcription.completed",
             "string", << "b", "o", "o", "k" >>),
    Upstream("object", "response.done", "absent", << >>) }

(* Variant: the endpoint is run on a worker thread, so requests overlap. *)
LoopFree_Threaded(p) == TRUE

(* chat_endpoint is a coroutine that calls the synchronous                 *)
(* process_user_message: from its first append to its return the one       *)
(* event-loop thread runs nothing else.                                    *)
LoopFree(p) == \A r \in Requests : p[r].state # "inside"

(* process_user_message: the user Turn, and the reply by outcome. *)
UserTurns(msg) == IF msg # << >> THEN << Turn("user", msg) >> ELSE << >>

PlainReply == << "How can I help?" >>
BookedReply == << "Your appointment is booked." >>
FailedReply == << "Booking failed. Please try again." >>
SorryReply == << "Sorry, I'm having trouble connecting to my brain right now." >>

ChatReply(collab, url, web) ==
  IF collab = "throws" THEN SorryReply
  ELSE IF collab = "tool"
  THEN IF send_to_make(url, web).ok THEN BookedReply ELSE FailedReply
  ELSE PlainReply

(* Variant: the voice handler keeps its Turns in the module-level          *)
(* chat_history instead of a list of its own.                              *)
ApplyToSession_Global(s, m, reach, store, chat) ==
  LET r == OnEvent(m, chat, store[s].buf, reach) IN
  [voice |-> [store EXCEPT ![s] = VoiceState("active", store[s].log, r.buf)],
   chat |-> r.hist,
   raised |-> r.raised,
   extract |-> r.extract,
   arg |-> r.hist]

(* One pass of a session's upstream loop on the session's own log and      *)
(* buffer, which are locals of its ws_voice call.                          *)
ApplyToSession(s, m, reach, store, chat) ==
  LET r == OnEvent(m, store[s].log, store[s].buf, reach) IN
  [voice |-> [store EXCEPT ![s] = VoiceState("active", r.hist, r.buf)],
   chat |-> chat,
   raised |-> r.raised,
   extract |-> r.extract,
   arg |-> r.hist]

(* A voice session is opened: ws_voice creates its log. *)
VoiceOpen(s) ==
  /\ LoopFree(pending)
  /\ voice[s].state = "absent"
  /\ voice' = [voice EXCEPT
                 ![s] = VoiceState("active",
                                   << Turn("system", SYSTEM_INSTRUCTIONS) >>, << >>)]
  /\ UNCHANGED << chat_history, pending, heard, extractArg >>
  /\ UNCHANGED sessionVars

HeardSoFar == Len(heard["s1"]) + Len(heard["s2"])

(* One pass of the upstream loop of session s, check_for_booking and the   *)
(* sends included; the loop ends when the pass raises.                     *)
VoiceEvent(s, m, reach, collab, web) ==
  /\ LoopFree(pending)
  /\ voice[s].state = "active"
  /\ HeardSoFar < MaxHeard
  /\ collab \in (IF m.type = "conversation.item.input_audio_transcription.completed"
                 THEN CollabOutcomes ELSE { "none" })
  /\ web \in (IF collab = "tool" /\ MAKE_WEBHOOK_URL # ""
              THEN WebOutcomes ELSE { "none" })
  /\ LET a == ApplyToSession(s, m, reach, voice, chat_history)
         c == check_for_booking(collab, MAKE_WEBHOOK_URL, web)
         ended == a.raised \/ (a.extract /\ (c.raised \/ ~ reach))
     IN
       /\ voice' = IF ended
                   THEN [a.voice EXCEPT ![s].state = "ended"]
                   ELSE a.voice
       /\ chat_history' = a.chat
       /\ extractArg' = IF a.extract THEN [extractArg EXCEPT ![s] = a.arg]
                        ELSE extractArg
  /\ heard' = [heard EXCEPT ![s] = Append(@, m)]
  /\ UNCHANGED pending
  /\ UNCHANGED sessionVars

(* A /chat request enters process_user_message: the user Turn is appended  *)
(* and the collaborator is called.                                         *)
ChatBegin(r, msg) ==
  /\ LoopFree(pending)
  /\ pending[r].state = "idle"
  /\ chat_history' = chat_history \o UserTurns(msg)
  /\ pending' = [pending EXCEPT
                   ![r] = Request("inside", msg, << >>, Len(chat_history'))]
  /\ UNCHANGED << voice, heard, extractArg >>
  /\ UNCHANGED sessionVars

(* The collaborator call ends; the reply is appended and returned. *)
ChatEnd(r, collab, web) ==
  /\ pending[r].state = "inside"
  /\ web \in (IF collab = "tool" /\ MAKE_WEBHOOK_URL # ""
              THEN WebOutcomes ELSE { "none" })
  /\ LET reply == ChatReply(collab, MAKE_WEBHOOK_URL, web) IN
       /\ chat_history' = Append(chat_history, Turn("assistant", reply))
       /\ pending' = [pending EXCEPT
                        ![r] = Request("done", pending[r].msg, reply, pending[r].at)]
  /\ UNCHANGED << voice, heard, extractArg >>
  /\ UNCHANGED sessionVars

SharedNext ==
  \/ \E s \in Sessions : VoiceOpen(s)
  \/ \E s \in Sessions, m \in SharedMessages, reach \in BOOLEAN,
        collab \in CollabOutcomes \cup { "none" },
        web \in WebOutcomes \cup { "none" } :
       VoiceEvent(s, m, reach, collab, web)
  \/ \E r \in Requests, msg \in ChatTexts : ChatBegin(r, msg)
  \/ \E r \in Requests, collab \in CollabOutcomes, web \in WebOutcomes \cup { "none" } :
       ChatEnd(r, collab, web)

SharedSpec == Init /\ [][SharedNext]_vars


(* What a session alone would hold after dispatching these messages: its   *)
(* log, its buffer and the log it last gave to check_for_booking.          *)
RECURSIVE Replay(_)
Replay(ms) ==
  IF ms = << >>
  THEN [hist |-> << Turn("system", SYSTEM_INSTRUCTIONS) >>, buf |-> << >>,
        arg |-> << >>]
  ELSE LET before == Replay(SubSeq(ms, 1, Len(ms) - 1))
           r == OnEvent(ms[Len(ms)], before.hist, before.buf, TRUE)
       IN  [hist |-> r.hist, buf |-> r.buf,
            arg |-> IF r.extract THEN r.hist ELSE before.arg]

(* C13: the log and buffer of a voice session, and the log it gives to     *)
(* check_for_booking, are those of the session run alone on its own        *)
(* upstream messages; a step of one voice session changes neither another  *)
(* session nor chat_history, and a /chat request changes no voice session. *)
C13_SessionsIsolated ==
  [][/\ \A s \in Sessions :
          voice'[s].state # "absent"
            => /\ voice'[s].log = Replay(heard'[s]).hist
               /\ voice'[s].buf = Replay(heard'[s]).buf
               /\ extractArg'[s] = Replay(heard'[s]).arg
     /\ (heard' # heard \/ voice' # voice)
          => /\ chat_history' = chat_history
             /\ pending' = pending
             /\ \A s \in Sessions :
                  heard'[s] = heard[s] /\ voice[s].state # "absent"
                    => voice'[s] = voice[s] /\ extractArg'[s] = extractArg[s]
     /\ pending' # pending
          => voice' = voice /\ extractArg' = extractArg /\ heard' = heard]_vars

C13_Witness ==
  /\ voice["s1"].log =
       << Turn("system", SYSTEM_INSTRUCTIONS), Turn("user", << "b", "o", "o", "k" >>) >>
  /\ extractArg["s1"] = voice["s1"].log
  /\ voice["s2"].state = "active"
  /\ voice["s2"].log = << Turn("system", SYSTEM_INSTRUCTIONS) >>
  /\ voice["s2"].buf = << "H", "i" >>
  /\ Len(chat_history) = 3
  /\ chat_history[2] = Turn("user", << "h", "i" >>)

(* C20: a /chat call appends the user Turn when the message is not empty   *)
(* and nothing otherwise, and ends by appending one assistant Turn holding *)
(* the reply it returns, whatever the outcome; between the two appends of  *)
(* a call nothing else is appended to chat_history.                        *)
ChatBegins(r) == pending[r].state = "idle" /\ pending'[r].state = "inside"
ChatEnds(r) == pending[r].state = "inside" /\ pending'[r].state = "done"

C20_ChatAppends ==
  [][\A r \in Requests :
       /\ ChatBegins(r)
            => chat_history' =
                 IF pending'[r].msg # << >>
                 THEN Append(chat_history, Turn("user", pending'[r].msg))
                 ELSE chat_history
       /\ ChatEnds(r)
            => /\ pending'[r].reply \in { PlainReply, BookedReply, FailedReply, SorryReply }
               /\ chat_history' =
                    Append(chat_history, Turn("assistant", pending'[r].reply))
               /\ Len(chat_history) = pending[r].at
               /\ pending[r].msg # << >>
                    => chat_history[Len(chat_history)] = Turn("user", pending[r].msg)
       /\ (~ ChatBegins(r) /\ ~ ChatEnds(r) /\ pending[r].state = "inside")
            => chat_history' = chat_history]_vars

C20_Witness ==
  /\ pending["r1"].state = "done"
  /\ pending["r2"].state = "done"
  /\ pending["r1"].msg = << "h", "i" >>
  /\ pending["r2"].msg = << >>
  /\ pending["r1"].reply = FailedReply
  /\ pending["r2"].reply = SorryReply
  /\ chat_history = << Turn("system", SYSTEM_INSTRUCTIONS),
                       Turn("assistant", SorryReply),
                       Turn("user", << "h", "i" >>),
                       Turn("assistant", FailedReply) >>

====
